---- MODULE Spec2Model ----
(***************************************************************************)
(* A model of joint_teapot.workers.gitea: the Gitea worker that provisions *)
(* teams, repositories, memberships and branch protection from a Canvas   *)
(* roster, and its paginated lister.                                       *)
(*                                                                         *)
(* The hosting platform is the environment.  Its organization state is the *)
(* record org; every remote call is answered with an HTTP status, either   *)
(* the one the platform's state calls for or, while the fault budget       *)
(* lasts, an injected error status that leaves the platform unchanged.     *)
(***************************************************************************)
EXTENDS Integers, Sequences, FiniteSets, TLC

\* ------------------------------------------------------------------ bounds
MaxMembers == 2
MaxStudents == 2
MaxFaults == 1
PageSize == 2
MaxPages == 3
MaxPageLen == 2
MaxFetch == 5
MaxIssues == 3
MaxCommits == 3
MaxOps == 3
MaxRoster == 130

\* ---------------------------------------------------------------- universe
None == "None"
Usernames == {"alice", "bob", "carol", "dave"}
GroupNames == {"g1", "g12"}
\* The order in which the platform lists teams and repositories.
NameOrder == <<"g1", "g12">>
\* The order in which the platform lists users.
UserOrder == <<"alice", "bob", "carol", "dave">>
\* Canvas user ids; UnknownId is a user id that no student record carries.
UserIds == 1 .. 4
UnknownId == 2
FaultStatuses == {404, 409, 500}

Min(S) == CHOOSE x \in S : \A y \in S : x <= y
Max2(a, b) == IF a >= b THEN a ELSE b

VARIABLES
    org,            \* the platform: teams, members, teamRepos, repos, collaborators, protection,
                    \* the closed issues (by number) and the states an issue listing answers
    budget,         \* injected faults the platform may still produce
    calls,          \* every remote call issued so far, with its answer
    log,            \* logger records, in order
    pc,             \* position of the running operation
    exc,            \* the exception that left the operation (pc = "raised")
    students,       \* argument: the roster students
    groups,         \* argument: the roster groups
    team_name_convertor,    \* argument
    repo_name_convertor,    \* argument
    teams,          \* local: list_all(org_list_teams)
    repos,          \* local: list_all(org_list_repos)
    repo_names,     \* local: the returned list
    gi,             \* local: index of the current group
    team,           \* local: id of the current team
    mi,             \* local: index of the current membership
    student_count,  \* local
    username,       \* local
    run,            \* how many times the operation has been started
    snap,           \* org as the previous run left it (as found, in the first run)
    team_names,     \* argument of add_canvas_students_to_teams
    ti,             \* local: index of the current team name
    team_id,        \* local
    team_id_cache,  \* the lru_cache of _get_team_id_by_name
    team_members,   \* local: the members listed for the team
    si,             \* local: index of the current student
    issues,         \* the platform: the titles of each repo's issues, in listing order
    history,        \* the platform: each repo's number of commits
    commits,        \* local of get_repos_status: the commits listed
    repo_arg,       \* argument repo_name of check_exist_issue_by_title
    title,          \* argument of check_exist_issue_by_title
    ret,            \* the value check_exist_issue_by_title returns
    res,            \* local: the dictionary get_repos_status returns
    ri,             \* local: index of the current repo
    pages,          \* list_all's method: the pages it answers
    mode,           \* list_all's method: whether it honours the page index
    kwargs,         \* list_all's arguments for the method
    page,           \* list_all's local
    all_res,        \* list_all's local
    username_cache, \* the lru_cache of _get_username_by_canvas_student, oldest first
    resolved,       \* the students the resolver has resolved so far
    last_call       \* the resolver's latest call and how it was answered

remoteVars == <<org, budget>>
argVars == <<students, groups, team_name_convertor, repo_name_convertor>>
groupLocals == <<teams, repos, repo_names, gi, team, mi, student_count, username>>
syncLocals == <<team_names, ti, team_id, team_id_cache, team_members>>
issueVars == <<issues, history, commits, repo_arg, title, ret, res, ri>>
listVars == <<pages, mode, kwargs, page, all_res>>
cacheVars == <<username_cache, resolved, last_call>>
notGroups == <<syncLocals, si, issueVars, listVars>>
vars == <<org, budget, calls, log, pc, exc, students, groups,
          team_name_convertor, repo_name_convertor, teams, repos, repo_names,
          gi, team, mi, student_count, username, run, snap,
          team_names, ti, team_id, team_id_cache, team_members, si,
          issues, history, commits, repo_arg, title, ret, res, ri,
          pages, mode, kwargs, page, all_res, username_cache, resolved, last_call>>

\* ------------------------------------------------------ the platform's answers
Ok(status) == status < 300

\* The answers a call can get: the one the platform's state calls for, or an
\* injected fault.
Answers(normal) == {normal} \cup (IF budget > 0 THEN FaultStatuses ELSE {})
Spend(a, normal) == budget' = IF a = normal THEN budget ELSE budget - 1

\* A call and a log record, each with the index of the roster entry (group,
\* team name, student, repo) the operation was at.
CallAt(idx, api, t, r, u, n, status) ==
    [api |-> api, team |-> t, repo |-> r, user |-> u, n |-> n, status |-> status,
     gi |-> idx, run |-> run]
Call(api, t, r, u, n, status) == CallAt(gi, api, t, r, u, n, status)

LogAt(idx, level, what, who) == [level |-> level, what |-> what, who |-> who, gi |-> idx]
LogRec(level, what, who) == LogAt(gi, level, what, who)

\* A page-based list endpoint: page p of `listing`.
PageOf(listing, p) ==
    LET lo == (p - 1) * PageSize + 1
        hi == IF p * PageSize <= Len(listing) THEN p * PageSize ELSE Len(listing)
    IN  IF p < 1 THEN <<>> ELSE SubSeq(listing, lo, hi)

\* What the platform lists for a set of names.
Listing(S) == SelectSeq(NameOrder, LAMBDA n : n \in S)

\* The list endpoint over `listing`, as a map from page index to page.
Endpoint(listing) == [p \in Nat |-> PageOf(listing, p)]

\* ------------------------------------------------------------ pure helpers
\* list_all over an endpoint that answers every page request: the pages are
\* requested from 1 upwards and concatenated until the first empty one.
\* `method` maps a page index to the page the endpoint answers.
RECURSIVE list_all_from(_, _)
list_all_from(method, p) ==
    LET items == method[p]
    IN  IF items = <<>> THEN <<>> ELSE items \o list_all_from(method, p + 1)

list_all(method) == list_all_from(method, 1)

Range(seq) == {seq[k] : k \in DOMAIN seq}

\* first(iterable, predicate): the first element that satisfies the
\* predicate, as <<element>>, or <<>> for None.  `predicate` maps each
\* element to a Boolean.
first(seq, predicate) ==
    LET hits == {k \in DOMAIN seq : predicate[seq[k]]}
    IN  IF hits = {} THEN <<>> ELSE <<seq[Min(hits)]>>

\* The resolver without its check of integration_id.
get_username_unchecked(student) == <<student.integration_id>>

\* _get_username_by_canvas_student: <<username>>, or <<>> when it raises.
get_username_by_canvas_student(student) ==
    IF student.integration_id = None THEN <<>> ELSE <<student.integration_id>>

\* ------------------------------------------------------------------ inputs
Student(id, login) == [id |-> id, integration_id |-> login]
GroupStudents ==
    <<Student(1, "alice"), Student(3, None), Student(4, "bob")>>

Segment(a, n) == [k \in 1 .. n |-> a + k - 1]
MemberLists ==
    {Segment(a, n) : a \in UserIds, n \in 0 .. MaxMembers} \cap
        UNION {[1 .. n -> UserIds] : n \in 0 .. MaxMembers}
Groups == [name : GroupNames, memberships : MemberLists]
\* A roster lists each Canvas group once: its groups have distinct names.
Rosters ==
    {<<g>> : g \in Groups} \cup
        {r \in [1 .. 2 -> Groups] : r[1].name # r[2].name}

Identity == [n \in GroupNames |-> n]
OptOut == [n \in GroupNames |-> IF n = "g12" THEN None ELSE n]
Merge == [n \in GroupNames |-> "g1"]
\* <<team_name_convertor, repo_name_convertor>>: the defaults, a convertor that
\* opts a group out, and convertors that give two groups one team or one repo.
ConvertorPairs ==
    {<<Identity, Identity>>, <<OptOut, Identity>>, <<Identity, OptOut>>,
     <<Merge, Identity>>, <<Identity, Merge>>}

EmptyOrg ==
    [teams |-> {}, members |-> [n \in GroupNames |-> {}],
     teamRepos |-> [n \in GroupNames |-> {}],
     repos |-> {}, collaborators |-> [n \in GroupNames |-> {}],
     protection |-> [n \in GroupNames |-> {}],
     closed |-> [n \in GroupNames |-> {}], listed |-> "open"]

\* Organizations the operation may find: any set of teams and of repos, the
\* existing repos with or without a rule on master.
InitialOrgs ==
    {[EmptyOrg EXCEPT !.teams = T, !.repos = R,
                      !.members = [n \in GroupNames |-> IF n \in T THEN M ELSE {}],
                      !.protection = [n \in GroupNames |-> IF n \in R THEN P ELSE {}]] :
        T \in SUBSET GroupNames, R \in SUBSET GroupNames,
        M \in {{"bob"}}, P \in {{}, {5}}}

\* ------------------------------------------------------------------ raising
Raise(kind, status) ==
    /\ pc' = "raised"
    /\ exc' = [kind |-> kind, status |-> status]

\* ---------------------------------- create_teams_and_repos_by_canvas_groups
group == groups[gi]
team_name == team_name_convertor[group.name]
repo_name == repo_name_convertor[group.name]

\* line 168: the team of that name in the listing.
team_lookup == first(teams, [t \in Range(teams) |-> t = team_name])

\* A lookup that compares the listed repo itself, not its name, with the name.
repo_lookup_by_object == first(repos, [r \in Range(repos) |-> <<r>> = repo_name])

\* line 190: the repo of that name in the listing.
repo_lookup == first(repos, [r \in Range(repos) |-> r = repo_name])

\* lines 159-160: repo_names = [] and the listing of the teams.
ListTeams ==
    /\ pc = "start"
    /\ repo_names' = <<>>
    /\ \E a \in Answers(200) :
         /\ Spend(a, 200)
         /\ calls' = Append(calls, Call("org_list_teams", "-", "-", "-", 0, a))
         /\ IF Ok(a)
              THEN /\ teams' = list_all(Endpoint(Listing(org.teams)))
                   /\ pc' = "list_repos"
                   /\ UNCHANGED exc
              ELSE /\ Raise("ApiException", a)
                   /\ UNCHANGED teams
    /\ UNCHANGED <<cacheVars, org, log, argVars, repos, gi, team, mi, student_count, username,
                   run, snap, notGroups>>

\* line 161: the listing of the repos; the loop over the groups starts.
ListRepos ==
    /\ pc = "list_repos"
    /\ \E a \in Answers(200) :
         /\ Spend(a, 200)
         /\ calls' = Append(calls, Call("org_list_repos", "-", "-", "-", 0, a))
         /\ IF Ok(a)
              THEN /\ repos' = list_all(Endpoint(Listing(org.repos)))
                   /\ gi' = 1
                   /\ pc' = "group"
                   /\ UNCHANGED exc
              ELSE /\ Raise("ApiException", a)
                   /\ UNCHANGED <<repos, gi>>
    /\ UNCHANGED <<cacheVars, org, log, argVars, teams, repo_names, team, mi, student_count,
                   username, run, snap, notGroups>>

\* lines 163-169: the loop head, the convertors and the team lookup.
NextGroup ==
    /\ pc = "group"
    /\ IF gi > Len(groups)
         THEN /\ pc' = "done"
              /\ UNCHANGED <<gi, team>>
         ELSE IF team_name = None \/ repo_name = None
         THEN /\ gi' = gi + 1
              /\ UNCHANGED <<pc, team>>
         ELSE LET found == team_lookup
              IN  IF found = <<>>
                    THEN pc' = "create_team" /\ UNCHANGED <<gi, team>>
                    ELSE pc' = "repo" /\ team' = found[1] /\ UNCHANGED gi
    /\ UNCHANGED <<cacheVars, remoteVars, calls, log, exc, argVars, teams, repos, repo_names,
                   mi, student_count, username, run, snap, notGroups>>

\* lines 170-189: org_create_team.
CreateTeam ==
    /\ pc = "create_team"
    /\ LET normal == IF team_name \in org.teams THEN 422 ELSE 201
       IN  \E a \in Answers(normal) :
             /\ Spend(a, normal)
             /\ calls' = Append(calls, Call("org_create_team", team_name, "-", "-", 0, a))
             /\ IF Ok(a)
                  THEN /\ org' = [org EXCEPT !.teams = @ \cup {team_name}]
                       /\ team' = team_name
                       /\ log' = Append(log, LogRec("info", "team created", team_name))
                       /\ pc' = "repo"
                       /\ UNCHANGED exc
                  ELSE /\ Raise("ApiException", a)
                       /\ UNCHANGED <<org, team, log>>
    /\ UNCHANGED <<cacheVars, argVars, teams, repos, repo_names, gi, mi, student_count,
                   username, run, snap, notGroups>>

\* lines 190-203: create_org_repo when the listing holds no repo of that name.
CreateRepo ==
    /\ pc = "repo"
    /\ IF repo_lookup = <<>>
         THEN LET normal == IF repo_name \in org.repos THEN 409 ELSE 201
              IN  \E a \in Answers(normal) :
                    /\ Spend(a, normal)
                    /\ repo_names' = Append(repo_names, repo_name)
                    /\ calls' = Append(calls,
                                       Call("create_org_repo", "-", repo_name, "-", 0, a))
                    /\ IF Ok(a)
                         THEN /\ org' = [org EXCEPT !.repos = @ \cup {repo_name}]
                              /\ log' = Append(log, LogRec("info", "repo created", repo_name))
                              /\ pc' = "link"
                              /\ UNCHANGED exc
                         ELSE /\ Raise("ApiException", a)
                              /\ UNCHANGED <<org, log>>
         ELSE /\ pc' = "link"
              /\ UNCHANGED <<remoteVars, calls, log, exc, repo_names>>
    /\ UNCHANGED <<cacheVars, argVars, teams, repos, gi, team, mi, student_count, username,
                   run, snap, notGroups>>

\* lines 204-208: org_add_team_repository, then the membership loop starts.
AddTeamRepository ==
    /\ pc = "link"
    /\ LET normal == IF team \in org.teams /\ repo_name \in org.repos THEN 204 ELSE 404
       IN  \E a \in Answers(normal) :
             /\ Spend(a, normal)
             /\ calls' = Append(calls,
                                Call("org_add_team_repository", team, repo_name, "-", 0, a))
             /\ IF Ok(a)
                  THEN /\ org' = [org EXCEPT !.teamRepos[team] = @ \cup {repo_name}]
                       /\ student_count' = 0
                       /\ mi' = 1
                       /\ pc' = "member"
                       /\ UNCHANGED exc
                  ELSE /\ Raise("ApiException", a)
                       /\ UNCHANGED <<org, student_count, mi>>
    /\ UNCHANGED <<cacheVars, log, argVars, teams, repos, repo_names, gi, team, username,
                   run, snap, notGroups>>

\* lines 209-220: one membership: the student lookup, the count, the username.
NextMembership ==
    /\ pc = "member"
    /\ IF mi > Len(group.memberships)
         THEN /\ pc' = "delete_protection"
              /\ UNCHANGED <<student_count, mi, username, log, exc>>
         ELSE LET user_id == group.memberships[mi]
                  student == first(students, [s \in Range(students) |-> s.id = user_id])
              IN  /\ student_count' = student_count + 1
                  /\ IF student = <<>>
                       THEN /\ Raise("Exception", 0)
                            /\ UNCHANGED <<mi, username, log>>
                       ELSE LET name == get_username_by_canvas_student(student[1])
                            IN  IF name = <<>>
                                  THEN /\ log' = Append(log,
                                                 LogRec("warning", "id not found", "-"))
                                       /\ mi' = mi + 1
                                       /\ UNCHANGED <<pc, username, exc>>
                                  ELSE /\ username' = name[1]
                                       /\ pc' = "add_member"
                                       /\ UNCHANGED <<mi, log, exc>>
    /\ UNCHANGED <<cacheVars, remoteVars, calls, argVars, teams, repos, repo_names, gi, team,
                   run, snap, notGroups>>

\* line 221: org_add_team_member.
AddTeamMember ==
    /\ pc = "add_member"
    /\ LET normal == IF team \in org.teams THEN 204 ELSE 404
       IN  \E a \in Answers(normal) :
             /\ Spend(a, normal)
             /\ calls' = Append(calls, Call("org_add_team_member", team, "-", username, 0, a))
             /\ IF Ok(a)
                  THEN /\ org' = [org EXCEPT !.members[team] = @ \cup {username}]
                       /\ pc' = "add_collaborator"
                       /\ UNCHANGED exc
                  ELSE /\ Raise("ApiException", a)
                       /\ UNCHANGED org
    /\ UNCHANGED <<cacheVars, log, argVars, groupLocals, run, snap, notGroups>>

\* repo_add_collaborator on a platform where the call replaces the collaborators.
AddCollaboratorReplacing ==
    /\ pc = "add_collaborator"
    /\ LET normal == IF repo_name \in org.repos THEN 204 ELSE 404
       IN  \E a \in Answers(normal) :
             /\ Spend(a, normal)
             /\ calls' = Append(calls,
                                Call("repo_add_collaborator", "-", repo_name, username, 0, a))
             /\ IF Ok(a)
                  THEN /\ org' = [org EXCEPT !.collaborators[repo_name] = {username}]
                       /\ mi' = mi + 1
                       /\ pc' = "member"
                       /\ UNCHANGED exc
                  ELSE /\ Raise("ApiException", a)
                       /\ UNCHANGED <<org, mi>>
    /\ UNCHANGED <<cacheVars, log, argVars, teams, repos, repo_names, gi, team, student_count,
                   username, run, snap, notGroups>>

\* lines 222-224: repo_add_collaborator.
AddCollaborator ==
    /\ pc = "add_collaborator"
    /\ LET normal == IF repo_name \in org.repos THEN 204 ELSE 404
       IN  \E a \in Answers(normal) :
             /\ Spend(a, normal)
             /\ calls' = Append(calls,
                                Call("repo_add_collaborator", "-", repo_name, username, 0, a))
             /\ IF Ok(a)
                  THEN /\ org' = [org EXCEPT !.collaborators[repo_name] = @ \cup {username}]
                       /\ mi' = mi + 1
                       /\ pc' = "member"
                       /\ UNCHANGED exc
                  ELSE /\ Raise("ApiException", a)
                       /\ UNCHANGED <<org, mi>>
    /\ UNCHANGED <<cacheVars, log, argVars, teams, repos, repo_names, gi, team, student_count,
                   username, run, snap, notGroups>>

\* lines 225-231: repo_delete_branch_protection, a 404 tolerated.
DeleteBranchProtection ==
    /\ pc = "delete_protection"
    /\ LET normal == IF repo_name \in org.repos /\ org.protection[repo_name] # {}
                       THEN 204 ELSE 404
       IN  \E a \in Answers(normal) :
             /\ Spend(a, normal)
             /\ calls' = Append(calls,
                          Call("repo_delete_branch_protection", "-", repo_name, "-", 0, a))
             /\ IF Ok(a)
                  THEN /\ org' = [org EXCEPT !.protection[repo_name] = {}]
                       /\ pc' = "create_protection"
                       /\ UNCHANGED exc
                  ELSE IF a # 404
                  THEN /\ Raise("ApiException", a)
                       /\ UNCHANGED org
                  ELSE /\ pc' = "create_protection"
                       /\ UNCHANGED <<org, exc>>
    /\ UNCHANGED <<cacheVars, log, argVars, groupLocals, run, snap, notGroups>>

\* The approvals without the floor at 0.
required_approvals_unfloored == student_count - 1

\* line 253: the approvals the rule asks for.
required_approvals == Max2(student_count - 1, 0)

\* lines 232-261: repo_create_branch_protection, a 404 tolerated.
CreateBranchProtection ==
    /\ pc = "create_protection"
    /\ LET normal == IF repo_name \notin org.repos THEN 404
                     ELSE IF org.protection[repo_name] # {} THEN 403 ELSE 201
       IN  \E a \in Answers(normal) :
             /\ Spend(a, normal)
             /\ calls' = Append(calls,
                          Call("repo_create_branch_protection", "-", repo_name, "-",
                               required_approvals, a))
             /\ IF Ok(a)
                  THEN /\ org' = [org EXCEPT !.protection[repo_name] = {required_approvals}]
                       /\ log' = Append(log, LogRec("info", "jobs done", repo_name))
                       /\ gi' = gi + 1
                       /\ pc' = "group"
                       /\ UNCHANGED exc
                  ELSE IF a # 404
                  THEN /\ Raise("ApiException", a)
                       /\ UNCHANGED <<org, log, gi>>
                  ELSE /\ log' = Append(log, LogRec("info", "jobs done", repo_name))
                       /\ gi' = gi + 1
                       /\ pc' = "group"
                       /\ UNCHANGED <<org, exc>>
    /\ UNCHANGED <<cacheVars, argVars, teams, repos, repo_names, team, mi, student_count,
                   username, run, snap, notGroups>>

create_teams_and_repos_by_canvas_groups ==
    \/ ListTeams
    \/ ListRepos
    \/ NextGroup
    \/ CreateTeam
    \/ CreateRepo
    \/ AddTeamRepository
    \/ NextMembership
    \/ AddTeamMember
    \/ AddCollaborator
    \/ DeleteBranchProtection
    \/ CreateBranchProtection

SyncLocalsInit ==
    /\ team_names = <<>>
    /\ ti = 0
    /\ team_id = "-"
    /\ team_id_cache = <<>>
    /\ team_members = <<>>
    /\ si = 0

IssueVarsInit ==
    /\ issues = [n \in GroupNames |-> <<>>]
    /\ history = [n \in GroupNames |-> 0]
    /\ commits = <<>>
    /\ repo_arg = "-"
    /\ title = "-"
    /\ ret = FALSE
    /\ res = <<>>
    /\ ri = 0

ListVarsInit ==
    /\ pages = <<>>
    /\ mode = "-"
    /\ kwargs = "-"
    /\ page = 0
    /\ all_res = <<>>

NoCall == [student |-> 0, known |-> FALSE, hit |-> FALSE, result |-> <<>>]
CacheVarsInit ==
    /\ username_cache = <<>>
    /\ resolved = {}
    /\ last_call = NoCall

GroupLocalsInit ==
    /\ teams = <<>>
    /\ repos = <<>>
    /\ repo_names = <<>>
    /\ gi = 0
    /\ team = "-"
    /\ mi = 0
    /\ student_count = 0
    /\ username = "-"

InitGroups ==
    /\ org \in InitialOrgs
    /\ budget \in 0 .. MaxFaults
    /\ calls = <<>>
    /\ log = <<>>
    /\ pc = "start"
    /\ exc = [kind |-> "-", status |-> 0]
    /\ students = GroupStudents
    /\ groups \in Rosters
    /\ \E c \in ConvertorPairs :
         team_name_convertor = c[1] /\ repo_name_convertor = c[2]
    /\ GroupLocalsInit
    /\ CacheVarsInit
    /\ SyncLocalsInit
    /\ IssueVarsInit
    /\ ListVarsInit
    /\ run = 1
    /\ snap = org

SpecGroups == InitGroups /\ [][create_teams_and_repos_by_canvas_groups]_vars

\* ------------------------------------------------- the operation run twice
\* The caller starts the operation again on the same students, groups and
\* convertors once the first run has ended.
Rerun ==
    /\ pc \in {"done", "raised"}
    /\ run = 1
    /\ run' = 2
    /\ snap' = org
    /\ pc' = "start"
    /\ exc' = [kind |-> "-", status |-> 0]
    /\ teams' = <<>>
    /\ repos' = <<>>
    /\ repo_names' = <<>>
    /\ gi' = 0
    /\ team' = "-"
    /\ mi' = 0
    /\ student_count' = 0
    /\ username' = "-"
    /\ UNCHANGED <<cacheVars, remoteVars, calls, log, argVars, notGroups>>

InitTwice ==
    /\ InitGroups
    /\ budget = 0

SpecTwice == InitTwice /\ [][create_teams_and_repos_by_canvas_groups \/ Rerun]_vars

\* ------------------------------------------ the scenario of a group of five
\* Five students of whom exactly one has no integration_id, all five in one
\* group; the platform answers every call as its state calls for.
ScenarioNames == <<"alice", "bob", "carol", "dave">>
ScenarioStudents(k) ==
    [i \in 1 .. 5 |->
        Student(i, IF i = k THEN None
                   ELSE ScenarioNames[IF i < k THEN i ELSE i - 1])]

InitScenario ==
    /\ org \in InitialOrgs
    /\ budget = 0
    /\ calls = <<>>
    /\ log = <<>>
    /\ pc = "start"
    /\ exc = [kind |-> "-", status |-> 0]
    /\ \E k \in 1 .. 5 : students = ScenarioStudents(k)
    /\ \E n \in GroupNames, first_id \in 1 .. 5 :
         groups = <<[name |-> n,
                     memberships |-> [i \in 1 .. 5 |-> ((first_id + i - 2) % 5) + 1]]>>
    /\ team_name_convertor = Identity
    /\ repo_name_convertor = Identity
    /\ GroupLocalsInit
    /\ CacheVarsInit
    /\ SyncLocalsInit
    /\ IssueVarsInit
    /\ ListVarsInit
    /\ run = 1
    /\ snap = org

SpecScenario == InitScenario /\ [][create_teams_and_repos_by_canvas_groups]_vars

\* ---------------------------------------------------------------- list_all
\* list_all step by step, over any method: one that answers the pages of
\* `pages` and empty pages after them, or one that ignores the page index and
\* always answers pages[1].
Items == {"x", "y"}
PageValues == UNION {[1 .. n -> Items] : n \in 0 .. MaxPageLen}
PageSeqs == UNION {[1 .. n -> PageValues] : n \in 0 .. MaxPages}

MethodAnswer(p) ==
    IF mode = "ignores page" THEN pages[1]
    ELSE IF p \in DOMAIN pages THEN pages[p] ELSE <<>>

\* An append that replaces what was collected.
append_items_overwriting(acc, items) == items

\* lines 39-40: for item in res: all_res.append(item).
append_items(acc, items) == acc \o items

\* lines 33-34.
ListAllStart ==
    /\ pc = "list_all"
    /\ all_res' = <<>>
    /\ page' = 1
    /\ pc' = "list_all_loop"
    /\ UNCHANGED <<cacheVars, remoteVars, calls, log, exc, argVars, groupLocals, run, snap,
                   syncLocals, si, issueVars, pages, mode, kwargs>>

\* One turn of the loop with a failed request tried again.
ListAllIterationRetrying ==
    /\ pc = "list_all_loop"
    /\ page <= MaxFetch
    /\ \E a \in Answers(200) :
         /\ Spend(a, 200)
         /\ calls' = Append(calls, Call("method", "-", kwargs, "-", page, a))
         /\ IF ~Ok(a)
              THEN UNCHANGED <<pc, exc, all_res, page>>
              ELSE LET fetched == MethodAnswer(page)
                   IN  IF fetched = <<>>
                         THEN /\ pc' = "done"
                              /\ UNCHANGED <<all_res, page, exc>>
                         ELSE /\ all_res' = append_items(all_res, fetched)
                              /\ page' = page + 1
                              /\ UNCHANGED <<pc, exc>>
    /\ UNCHANGED <<cacheVars, org, log, argVars, groupLocals, run, snap, syncLocals, si,
                   issueVars, pages, mode, kwargs>>

\* lines 35-42: one turn of the loop: the request, the test, the appends, the
\* increment; the return on an empty page.
ListAllIteration ==
    /\ pc = "list_all_loop"
    /\ page <= MaxFetch
    /\ \E a \in Answers(200) :
         /\ Spend(a, 200)
         /\ calls' = Append(calls, Call("method", "-", kwargs, "-", page, a))
         /\ IF ~Ok(a)
              THEN /\ Raise("ApiException", a)
                   /\ UNCHANGED <<all_res, page>>
              ELSE LET fetched == MethodAnswer(page)
                   IN  IF fetched = <<>>
                         THEN /\ pc' = "done"
                              /\ UNCHANGED <<all_res, page, exc>>
                         ELSE /\ all_res' = append_items(all_res, fetched)
                              /\ page' = page + 1
                              /\ UNCHANGED <<pc, exc>>
    /\ UNCHANGED <<cacheVars, org, log, argVars, groupLocals, run, snap, syncLocals, si,
                   issueVars, pages, mode, kwargs>>

InitList ==
    /\ org = EmptyOrg
    /\ budget \in 0 .. MaxFaults
    /\ calls = <<>>
    /\ log = <<>>
    /\ pc = "list_all"
    /\ exc = [kind |-> "-", status |-> 0]
    /\ students = <<>>
    /\ groups = <<>>
    /\ team_name_convertor = Identity
    /\ repo_name_convertor = Identity
    /\ GroupLocalsInit
    /\ CacheVarsInit
    /\ SyncLocalsInit
    /\ IssueVarsInit
    /\ run = 1
    /\ snap = org
    /\ pages \in PageSeqs
    /\ mode \in {"paged", "ignores page"}
    /\ mode = "ignores page" => Len(pages) = 1
    /\ kwargs \in {"org", "org/repo"}
    /\ page = 0
    /\ all_res = <<>>

SpecList == InitList /\ [][ListAllStart \/ ListAllIteration]_vars

\* list_all runs on: a statement that can execute does execute.
SpecListFair ==
    /\ InitList
    /\ [][ListAllStart \/ ListAllIteration]_vars
    /\ WF_vars(ListAllStart)
    /\ WF_vars(ListAllIteration)

\* ---------------------------------------------- add_canvas_students_to_teams
\* team_search matches a team when its name holds the query.
Matches(q, name) ==
    \E i \in 1 .. Len(name) - Len(q) + 1 : SubSeq(name, i, i + Len(q) - 1) = q

\* organization_api.team_search(org_name, q=name, limit=1): the data the
\* platform can answer, one matching team in whichever order it ranks them.
team_search(q) ==
    LET hits == {n \in org.teams : Matches(q, n)}
    IN  IF hits = {} THEN {<<>>} ELSE {<<n>> : n \in hits}

\* What the platform lists for a set of users.
UserListing(S) == SelectSeq(UserOrder, LAMBDA u : u \in S)

\* list.remove(x): without the first element equal to x.
Remove(seq, x) ==
    LET k == Min({i \in DOMAIN seq : seq[i] = x})
    IN  SubSeq(seq, 1, k - 1) \o SubSeq(seq, k + 1, Len(seq))

\* The resolution with a failure logged and the team skipped: the loop goes on
\* with the next team name.
ResolveTeamSkipping ==
    /\ pc = "sync_team"
    /\ IF ti > Len(team_names)
         THEN /\ pc' = "done"
              /\ UNCHANGED <<budget, calls, log, ti, team_id, team_id_cache>>
         ELSE LET name == team_names[ti]
              IN  IF name \in DOMAIN team_id_cache
                    THEN /\ team_id' = team_id_cache[name]
                         /\ pc' = "sync_members"
                         /\ UNCHANGED <<budget, calls, log, ti, team_id_cache>>
                    ELSE \E a \in Answers(200) :
                           /\ Spend(a, 200)
                           /\ calls' = Append(calls,
                                  CallAt(ti, "team_search", name, "-", "-", 1, a))
                           /\ IF ~Ok(a)
                                THEN /\ log' = Append(log, LogAt(ti, "error", "ApiException", name))
                                     /\ ti' = ti + 1
                                     /\ UNCHANGED <<pc, team_id, team_id_cache>>
                                ELSE \E data \in team_search(name) :
                                         IF Len(data) = 0
                                           THEN /\ log' = Append(log,
                                                     LogAt(ti, "error", "Exception", name))
                                                /\ ti' = ti + 1
                                                /\ UNCHANGED <<pc, team_id, team_id_cache>>
                                           ELSE /\ team_id' = data[1]
                                                /\ team_id_cache' =
                                                     [x \in DOMAIN team_id_cache \cup {name} |->
                                                        IF x = name THEN data[1]
                                                        ELSE team_id_cache[x]]
                                                /\ pc' = "sync_members"
                                                /\ UNCHANGED <<log, ti>>
    /\ UNCHANGED <<cacheVars, org, exc, argVars, groupLocals, run, snap, team_names,
                   team_members, si, issueVars, listVars>>

\* lines 88-89 and 70-77: the loop over the team names and the team id, from
\* the cache or from a team search.
ResolveTeam ==
    /\ pc = "sync_team"
    /\ IF ti > Len(team_names)
         THEN /\ pc' = "done"
              /\ UNCHANGED <<budget, calls, exc, team_id, team_id_cache>>
         ELSE LET name == team_names[ti]
              IN  IF name \in DOMAIN team_id_cache
                    THEN /\ team_id' = team_id_cache[name]
                         /\ pc' = "sync_members"
                         /\ UNCHANGED <<budget, calls, exc, team_id_cache>>
                    ELSE \E a \in Answers(200) :
                           /\ Spend(a, 200)
                           /\ calls' = Append(calls,
                                  CallAt(ti, "team_search", name, "-", "-", 1, a))
                           /\ IF ~Ok(a)
                                THEN /\ Raise("ApiException", a)
                                     /\ UNCHANGED <<team_id, team_id_cache>>
                                ELSE \E data \in team_search(name) :
                                         IF Len(data) = 0
                                           THEN /\ Raise("Exception", 0)
                                                /\ UNCHANGED <<team_id, team_id_cache>>
                                           ELSE /\ team_id' = data[1]
                                                /\ team_id_cache' =
                                                     [x \in DOMAIN team_id_cache \cup {name} |->
                                                        IF x = name THEN data[1]
                                                        ELSE team_id_cache[x]]
                                                /\ pc' = "sync_members"
                                                /\ UNCHANGED exc
    /\ UNCHANGED <<cacheVars, org, log, argVars, groupLocals, run, snap, team_names, ti,
                   team_members, si, issueVars, listVars>>

\* line 90: org_list_team_members(team_id), called without a page: the first
\* page of the team's members.
ListTeamMembers ==
    /\ pc = "sync_members"
    /\ LET normal == IF team_id \in org.teams THEN 200 ELSE 404
           listed == PageOf(UserListing(org.members[team_id]), 1)
       IN  \E a \in Answers(normal) :
             /\ Spend(a, normal)
             /\ calls' = Append(calls,
                    CallAt(ti, "org_list_team_members", team_id, "-", "-", Len(listed), a))
             /\ IF Ok(a)
                  THEN /\ team_members' = listed
                       /\ si' = 1
                       /\ pc' = "sync_student"
                       /\ UNCHANGED exc
                  ELSE /\ Raise("ApiException", a)
                       /\ UNCHANGED <<team_members, si>>
    /\ UNCHANGED <<cacheVars, org, log, argVars, groupLocals, run, snap, team_names, ti,
                   team_id, team_id_cache, issueVars, listVars>>

\* line 94: the listed member with the student's username.
team_member_lookup(name) == first(team_members, [x \in Range(team_members) |-> x = name])

\* One student, with the added student appended to the listed members.
SyncStudentAppending ==
    /\ pc = "sync_student"
    /\ IF si > Len(students)
         THEN /\ pc' = "sync_report"
              /\ UNCHANGED <<remoteVars, calls, log, team_members, si>>
         ELSE LET name == get_username_by_canvas_student(students[si])
              IN  /\ si' = si + 1
                  /\ UNCHANGED pc
                  /\ IF name = <<>>
                       THEN /\ log' = Append(log, LogAt(ti, "error", "id not found", "-"))
                            /\ UNCHANGED <<remoteVars, calls, team_members>>
                       ELSE LET team_member == team_member_lookup(name[1])
                                normal == IF team_id \in org.teams THEN 204 ELSE 404
                            IN  IF team_member = <<>>
                                  THEN \E a \in Answers(normal) :
                                         /\ Spend(a, normal)
                                         /\ calls' = Append(calls,
                                                CallAt(ti, "org_add_team_member", team_id,
                                                       "-", name[1], si, a))
                                         /\ IF Ok(a)
                                              THEN /\ org' = [org EXCEPT
                                                        !.members[team_id] = @ \cup {name[1]}]
                                                   /\ log' = Append(log,
                                                        LogAt(ti, "info", "added to team", name[1]))
                                              ELSE /\ log' = Append(log,
                                                        LogAt(ti, "error", "ApiException", name[1]))
                                                   /\ UNCHANGED org
                                         /\ team_members' =
                                              IF Ok(a) THEN Append(team_members, name[1])
                                              ELSE team_members
                                  ELSE /\ team_members' = Remove(team_members, team_member[1])
                                       /\ log' = Append(log,
                                            LogAt(ti, "warning", "already in team", name[1]))
                                       /\ UNCHANGED <<remoteVars, calls>>
    /\ UNCHANGED <<cacheVars, exc, argVars, groupLocals, run, snap, team_names, ti, team_id,
                   team_id_cache, issueVars, listVars>>

\* The sync with the handler around the whole loop: a student that does not
\* resolve ends the loop over the students.
SyncStudentLeaving ==
    /\ pc = "sync_student"
    /\ IF si > Len(students)
         THEN /\ pc' = "sync_report"
              /\ UNCHANGED <<remoteVars, calls, log, team_members, si>>
         ELSE LET name == get_username_by_canvas_student(students[si])
              IN  /\ si' = IF name = <<>> THEN Len(students) + 1 ELSE si + 1
                  /\ UNCHANGED pc
                  /\ IF name = <<>>
                       THEN /\ log' = Append(log, LogAt(ti, "error", "id not found", "-"))
                            /\ UNCHANGED <<remoteVars, calls, team_members>>
                       ELSE LET team_member == team_member_lookup(name[1])
                                normal == IF team_id \in org.teams THEN 204 ELSE 404
                            IN  IF team_member = <<>>
                                  THEN \E a \in Answers(normal) :
                                         /\ Spend(a, normal)
                                         /\ calls' = Append(calls,
                                                CallAt(ti, "org_add_team_member", team_id,
                                                       "-", name[1], si, a))
                                         /\ IF Ok(a)
                                              THEN /\ org' = [org EXCEPT
                                                        !.members[team_id] = @ \cup {name[1]}]
                                                   /\ log' = Append(log,
                                                        LogAt(ti, "info", "added to team", name[1]))
                                              ELSE /\ log' = Append(log,
                                                        LogAt(ti, "error", "ApiException", name[1]))
                                                   /\ UNCHANGED org
                                         /\ UNCHANGED team_members
                                  ELSE /\ team_members' = Remove(team_members, team_member[1])
                                       /\ log' = Append(log,
                                            LogAt(ti, "warning", "already in team", name[1]))
                                       /\ UNCHANGED <<remoteVars, calls>>
    /\ UNCHANGED <<cacheVars, exc, argVars, groupLocals, run, snap, team_names, ti, team_id,
                   team_id_cache, issueVars, listVars>>

\* lines 91-102: one student: the username, the lookup among the listed
\* members, the add or the removal from the list; every exception logged.
SyncStudent ==
    /\ pc = "sync_student"
    /\ IF si > Len(students)
         THEN /\ pc' = "sync_report"
              /\ UNCHANGED <<remoteVars, calls, log, team_members, si>>
         ELSE LET name == get_username_by_canvas_student(students[si])
              IN  /\ si' = si + 1
                  /\ UNCHANGED pc
                  /\ IF name = <<>>
                       THEN /\ log' = Append(log, LogAt(ti, "error", "id not found", "-"))
                            /\ UNCHANGED <<remoteVars, calls, team_members>>
                       ELSE LET team_member == team_member_lookup(name[1])
                                normal == IF team_id \in org.teams THEN 204 ELSE 404
                            IN  IF team_member = <<>>
                                  THEN \E a \in Answers(normal) :
                                         /\ Spend(a, normal)
                                         /\ calls' = Append(calls,
                                                CallAt(ti, "org_add_team_member", team_id,
                                                       "-", name[1], si, a))
                                         /\ IF Ok(a)
                                              THEN /\ org' = [org EXCEPT
                                                        !.members[team_id] = @ \cup {name[1]}]
                                                   /\ log' = Append(log,
                                                        LogAt(ti, "info", "added to team", name[1]))
                                              ELSE /\ log' = Append(log,
                                                        LogAt(ti, "error", "ApiException", name[1]))
                                                   /\ UNCHANGED org
                                         /\ UNCHANGED team_members
                                  ELSE /\ team_members' = Remove(team_members, team_member[1])
                                       /\ log' = Append(log,
                                            LogAt(ti, "warning", "already in team", name[1]))
                                       /\ UNCHANGED <<remoteVars, calls>>
    /\ UNCHANGED <<cacheVars, exc, argVars, groupLocals, run, snap, team_names, ti, team_id,
                   team_id_cache, issueVars, listVars>>

\* lines 103-107: the listed members no student matched.
ReportUnexpected ==
    /\ pc = "sync_report"
    /\ log' = log \o [k \in DOMAIN team_members |->
                        LogAt(ti, "error", "not found in Canvas students", team_members[k])]
    /\ ti' = ti + 1
    /\ pc' = "sync_team"
    /\ UNCHANGED <<cacheVars, remoteVars, calls, exc, argVars, groupLocals, run, snap, team_names,
                   team_id, team_id_cache, team_members, si, issueVars, listVars>>

add_canvas_students_to_teams ==
    \/ ResolveTeam
    \/ ListTeamMembers
    \/ SyncStudent
    \/ ReportUnexpected

SyncLogins == {None, "alice", "bob", "carol"}
SyncRosters ==
    UNION {{[i \in 1 .. n |-> Student(i, l[i])] : l \in [1 .. n -> SyncLogins]} :
             n \in 0 .. MaxStudents}
TeamNameLists == UNION {[1 .. n -> GroupNames] : n \in 1 .. 2}
\* Organizations the sync may find: team g1 missing or with any members, team
\* g12 missing, empty or with one member.
SyncOrgs ==
    {[EmptyOrg EXCEPT !.teams = T,
                      !.members = [n \in GroupNames |->
                                     IF n \notin T THEN {} ELSE IF n = "g1" THEN M1 ELSE M2]] :
        T \in SUBSET GroupNames, M1 \in SUBSET Usernames, M2 \in {{}, {"carol"}}}

InitSync ==
    /\ org \in SyncOrgs
    /\ budget \in 0 .. MaxFaults
    /\ calls = <<>>
    /\ log = <<>>
    /\ pc = "sync_team"
    /\ exc = [kind |-> "-", status |-> 0]
    /\ students \in SyncRosters
    /\ groups = <<>>
    /\ team_name_convertor = Identity
    /\ repo_name_convertor = Identity
    /\ GroupLocalsInit
    /\ CacheVarsInit
    /\ team_names \in TeamNameLists
    /\ ti = 1
    /\ team_id = "-"
    /\ team_id_cache = <<>>
    /\ team_members = <<>>
    /\ si = 0
    /\ IssueVarsInit
    /\ ListVarsInit
    /\ run = 1
    /\ snap = org

SpecSync == InitSync /\ [][add_canvas_students_to_teams]_vars

\* -------------------------------- create_personal_repos_for_canvas_students
\* Here repo_name_convertor maps a student, by id, to a repo name or None.
personal_repo_name == repo_name_convertor[students[si].id]

\* lines 117-121: the next student, the repo name, the opt-out, the append;
\* line 149: the return after the last student.
NextStudent ==
    /\ pc = "personal"
    /\ IF si = Len(students)
         THEN /\ pc' = "done"
              /\ UNCHANGED <<si, repo_names>>
         ELSE LET name == repo_name_convertor[students[si + 1].id]
              IN  /\ si' = si + 1
                  /\ IF name = None
                       THEN UNCHANGED <<pc, repo_names>>
                       ELSE /\ repo_names' = Append(repo_names, name)
                            /\ pc' = "personal_create"
    /\ UNCHANGED <<cacheVars, remoteVars, calls, log, exc, argVars, teams, repos, gi, team, mi,
                   student_count, username, run, snap, syncLocals, issueVars, listVars>>

\* lines 130-142 and 147-148: create_org_repo; a 409 is logged as a warning,
\* any other failure is logged by the outer handler and ends the student's turn.
PersonalCreateRepo ==
    /\ pc = "personal_create"
    /\ LET normal == IF personal_repo_name \in org.repos THEN 409 ELSE 201
       IN  \E a \in Answers(normal) :
             /\ Spend(a, normal)
             /\ calls' = Append(calls,
                    CallAt(si, "create_org_repo", "-", personal_repo_name, "-", 0, a))
             /\ IF Ok(a)
                  THEN /\ org' = [org EXCEPT !.repos = @ \cup {personal_repo_name}]
                       /\ log' = Append(log,
                              LogAt(si, "info", "repo created", personal_repo_name))
                       /\ pc' = "personal_collaborator"
                  ELSE IF a = 409
                  THEN /\ log' = Append(log,
                              LogAt(si, "warning", "already exists", personal_repo_name))
                       /\ pc' = "personal_collaborator"
                       /\ UNCHANGED org
                  ELSE /\ log' = Append(log,
                              LogAt(si, "error", "ApiException", personal_repo_name))
                       /\ pc' = "personal"
                       /\ UNCHANGED org
    /\ UNCHANGED <<cacheVars, exc, argVars, teams, repos, repo_names, gi, team, mi, student_count,
                   username, run, snap, syncLocals, si, issueVars, listVars>>

\* lines 143-148: the username, then repo_add_collaborator; an unresolved
\* student or a failed call is logged by the outer handler.
PersonalAddCollaborator ==
    /\ pc = "personal_collaborator"
    /\ pc' = "personal"
    /\ LET name == get_username_by_canvas_student(students[si])
           normal == IF personal_repo_name \in org.repos THEN 204 ELSE 404
       IN  IF name = <<>>
             THEN /\ log' = Append(log, LogAt(si, "error", "id not found", "-"))
                  /\ UNCHANGED <<remoteVars, calls, username>>
             ELSE /\ username' = name[1]
                  /\ \E a \in Answers(normal) :
                       /\ Spend(a, normal)
                       /\ calls' = Append(calls,
                              CallAt(si, "repo_add_collaborator", "-", personal_repo_name,
                                     name[1], 0, a))
                       /\ IF Ok(a)
                            THEN /\ org' = [org EXCEPT
                                      !.collaborators[personal_repo_name] = @ \cup {name[1]}]
                                 /\ UNCHANGED log
                            ELSE /\ log' = Append(log,
                                      LogAt(si, "error", "ApiException", name[1]))
                                 /\ UNCHANGED org
    /\ UNCHANGED <<cacheVars, exc, argVars, teams, repos, repo_names, gi, team, mi, student_count,
                   run, snap, syncLocals, si, issueVars, listVars>>

create_personal_repos_for_canvas_students ==
    \/ NextStudent
    \/ PersonalCreateRepo
    \/ PersonalAddCollaborator

PersonalConvertors == [1 .. MaxStudents -> GroupNames \cup {None}]
PersonalOrgs == {[EmptyOrg EXCEPT !.repos = R] : R \in SUBSET GroupNames}

InitPersonal ==
    /\ org \in PersonalOrgs
    /\ budget \in 0 .. MaxFaults
    /\ calls = <<>>
    /\ log = <<>>
    /\ pc = "personal"
    /\ exc = [kind |-> "-", status |-> 0]
    /\ students \in SyncRosters
    /\ groups = <<>>
    /\ team_name_convertor = Identity
    /\ repo_name_convertor \in PersonalConvertors
    /\ GroupLocalsInit
    /\ CacheVarsInit
    /\ SyncLocalsInit
    /\ IssueVarsInit
    /\ ListVarsInit
    /\ run = 1
    /\ snap = org

SpecPersonal == InitPersonal /\ [][create_personal_repos_for_canvas_students]_vars

\* ------------------------------------------------ check_exist_issue_by_title
Titles == {"HW1", "hw1", "HW2"}
IssueLists == UNION {[1 .. n -> Titles] : n \in 0 .. MaxIssues}
Fold == [t \in Titles |-> IF t = "hw1" THEN "HW1" ELSE t]

\* A comparison that ignores case.
title_equal_ignoring_case(a, b) == Fold[a] = Fold[b]

\* line 375: issue.title == title.
title_equal(a, b) == a = b

\* lines 372-374 with list_all's lines 35-42: one turn of list_all's loop over
\* issue_list_issues(org, repo_name, page=page).
FetchIssues ==
    /\ pc = "check_issue"
    /\ \E a \in Answers(200) :
         /\ Spend(a, 200)
         /\ calls' = Append(calls, CallAt(0, "issue_list_issues", "-", repo_arg, "-", page, a))
         /\ IF ~Ok(a)
              THEN /\ Raise("ApiException", a)
                   /\ UNCHANGED <<all_res, page>>
              ELSE LET fetched == Endpoint(issues[repo_arg])[page]
                   IN  IF fetched = <<>>
                         THEN /\ pc' = "check_issue_scan"
                              /\ UNCHANGED <<all_res, page, exc>>
                         ELSE /\ all_res' = append_items(all_res, fetched)
                              /\ page' = page + 1
                              /\ UNCHANGED <<pc, exc>>
    /\ UNCHANGED <<cacheVars, org, log, argVars, groupLocals, run, snap, syncLocals, si,
                   issueVars, pages, mode, kwargs>>

\* lines 372-377: the scan of the collected issues and the return.
ScanIssues ==
    /\ pc = "check_issue_scan"
    /\ ret' = (first(all_res, [t \in Range(all_res) |-> title_equal(t, title)]) # <<>>)
    /\ pc' = "done"
    /\ UNCHANGED <<cacheVars, remoteVars, calls, log, exc, argVars, groupLocals, run, snap,
                   syncLocals, si, issues, history, commits, repo_arg, title, res, ri,
                   listVars>>

check_exist_issue_by_title == FetchIssues \/ ScanIssues

InitIssues ==
    /\ org = [EmptyOrg EXCEPT !.repos = GroupNames]
    /\ budget \in 0 .. MaxFaults
    /\ calls = <<>>
    /\ log = <<>>
    /\ pc = "check_issue"
    /\ exc = [kind |-> "-", status |-> 0]
    /\ students = <<>>
    /\ groups = <<>>
    /\ team_name_convertor = Identity
    /\ repo_name_convertor = Identity
    /\ GroupLocalsInit
    /\ CacheVarsInit
    /\ SyncLocalsInit
    /\ issues \in [GroupNames -> IssueLists]
    /\ issues["g1"] = <<>> \/ issues["g12"] = <<>>
    /\ history = [n \in GroupNames |-> 0]
    /\ commits = <<>>
    /\ repo_arg \in GroupNames
    /\ title \in Titles
    /\ ret = FALSE
    /\ res = <<>>
    /\ ri = 0
    /\ pages = <<>>
    /\ mode = "-"
    /\ kwargs = "-"
    /\ page = 1
    /\ all_res = <<>>
    /\ run = 1
    /\ snap = org

SpecIssues == InitIssues /\ [][check_exist_issue_by_title]_vars

\* ------------------------------------------------------------ get_repos_status
\* What the two listings answer without a page argument: the first page.
CommitListing(repo) == PageOf(Segment(1, history[repo]), 1)
IssueListing(repo) == PageOf(issues[repo], 1)

\* A handler that lets the 404 pass instead.
tolerated_not_found(status) == status = 404

\* lines 319-321: the status the handler of the commit listing lets pass.
tolerated(status) == status = 409

\* line 312: list_all(org_list_repos).
StatusListRepos ==
    /\ pc = "status"
    /\ \E a \in Answers(200) :
         /\ Spend(a, 200)
         /\ calls' = Append(calls, CallAt(0, "org_list_repos", "-", "-", "-", 0, a))
         /\ IF Ok(a)
              THEN /\ repos' = list_all(Endpoint(Listing(org.repos)))
                   /\ ri' = 1
                   /\ pc' = "status_commits"
                   /\ UNCHANGED exc
              ELSE /\ Raise("ApiException", a)
                   /\ UNCHANGED <<repos, ri>>
    /\ UNCHANGED <<cacheVars, org, log, argVars, teams, repo_names, gi, team, mi, student_count,
                   username, run, snap, syncLocals, si, issues, history, commits,
                   repo_arg, title, ret, res, listVars>>

\* lines 312-321 and 328: the next repo and its commit listing, which answers
\* 409 for a repo without commits; the return after the last repo.
StatusCommits ==
    /\ pc = "status_commits"
    /\ IF ri > Len(repos)
         THEN /\ pc' = "done"
              /\ UNCHANGED <<remoteVars, calls, exc, commits>>
         ELSE LET repo == repos[ri]
                  normal == IF history[repo] = 0 THEN 409 ELSE 200
              IN  \E a \in Answers(normal) :
                    /\ Spend(a, normal)
                    /\ calls' = Append(calls,
                           CallAt(ri, "repo_get_all_commits", "-", repo, "-",
                                  IF Ok(a) THEN Len(CommitListing(repo)) ELSE 0, a))
                    /\ IF Ok(a)
                         THEN /\ commits' = CommitListing(repo)
                              /\ pc' = "status_issues"
                              /\ UNCHANGED exc
                         ELSE IF tolerated(a)
                         THEN /\ commits' = <<>>
                              /\ pc' = "status_issues"
                              /\ UNCHANGED exc
                         ELSE /\ Raise("ApiException", a)
                              /\ commits' = <<>>
                    /\ UNCHANGED org
    /\ UNCHANGED <<cacheVars, log, argVars, groupLocals, run, snap, syncLocals, si, issues, history,
                   repo_arg, title, ret, res, ri, listVars>>

\* lines 322-326: the issue listing in every state, and the repo's entry.
StatusIssues ==
    /\ pc = "status_issues"
    /\ LET repo == repos[ri]
       IN  \E a \in Answers(200) :
             /\ Spend(a, 200)
             /\ calls' = Append(calls,
                    CallAt(ri, "issue_list_issues", "-", repo, "-",
                           IF Ok(a) THEN Len(IssueListing(repo)) ELSE 0, a))
             /\ IF Ok(a)
                  THEN /\ res' = [n \in DOMAIN res \cup {repo} |->
                                    IF n = repo
                                      THEN <<Len(commits), Len(IssueListing(repo))>>
                                      ELSE res[n]]
                       /\ ri' = ri + 1
                       /\ pc' = "status_commits"
                       /\ UNCHANGED exc
                  ELSE /\ Raise("ApiException", a)
                       /\ UNCHANGED <<res, ri>>
             /\ UNCHANGED org
    /\ UNCHANGED <<cacheVars, log, argVars, groupLocals, run, snap, syncLocals, si, issues, history,
                   commits, repo_arg, title, ret, listVars>>

get_repos_status ==
    \/ StatusListRepos
    \/ StatusCommits
    \/ StatusIssues

StatusIssueLists == {[k \in 1 .. n |-> "HW1"] : n \in 0 .. MaxIssues}

InitStatus ==
    /\ org \in PersonalOrgs
    /\ budget \in 0 .. MaxFaults
    /\ calls = <<>>
    /\ log = <<>>
    /\ pc = "status"
    /\ exc = [kind |-> "-", status |-> 0]
    /\ students = <<>>
    /\ groups = <<>>
    /\ team_name_convertor = Identity
    /\ repo_name_convertor = Identity
    /\ GroupLocalsInit
    /\ CacheVarsInit
    /\ SyncLocalsInit
    /\ issues \in [GroupNames -> StatusIssueLists]
    /\ history \in [GroupNames -> 0 .. MaxCommits]
    /\ \A n \in GroupNames \ org.repos : issues[n] = <<>> /\ history[n] = 0
    /\ commits = <<>>
    /\ repo_arg = "-"
    /\ title = "-"
    /\ ret = FALSE
    /\ res = <<>>
    /\ ri = 0
    /\ ListVarsInit
    /\ run = 1
    /\ snap = org

SpecStatus == InitStatus /\ [][get_repos_status]_vars

\* ------------------------------------------------------------ close_all_issues
\* The issues and pull requests of a repo as issue_list_issues answers them
\* without a state argument: number and state, the closed ones left out when
\* the platform lists the open ones only.
IssueItems(repo) ==
    LET item(i) == [number |-> i,
                    state |-> IF i \in org.closed[repo] THEN "closed" ELSE "open"]
        all == [i \in DOMAIN issues[repo] |-> item(i)]
    IN  IF org.listed = "all" THEN all
        ELSE SelectSeq(all, LAMBDA x : x.state = "open")

\* An edit of every listed item.
needs_closing_whatever(issue) == TRUE

\* line 385: issue.state != "closed".
needs_closing(issue) == issue.state # "closed"

\* lines 380 and 292-296: get_all_repo_names().
CloseListRepos ==
    /\ pc = "close"
    /\ \E a \in Answers(200) :
         /\ Spend(a, 200)
         /\ calls' = Append(calls, CallAt(0, "org_list_repos", "-", "-", "-", 0, a))
         /\ IF Ok(a)
              THEN /\ repos' = list_all(Endpoint(Listing(org.repos)))
                   /\ ri' = 1
                   /\ page' = 1
                   /\ all_res' = <<>>
                   /\ pc' = "close_fetch"
                   /\ UNCHANGED exc
              ELSE /\ Raise("ApiException", a)
                   /\ UNCHANGED <<repos, ri, page, all_res>>
    /\ UNCHANGED <<cacheVars, org, log, argVars, teams, repo_names, gi, team, mi,
                   student_count, username, run, snap, syncLocals, si, issues, history,
                   commits, repo_arg, title, ret, res, pages, mode, kwargs>>

\* lines 380-383 with list_all's lines 35-42: the next repo, and one turn of
\* list_all's loop over issue_list_issues(org, repo_name, page=page).
CloseFetchIssues ==
    /\ pc = "close_fetch"
    /\ IF ri > Len(repos)
         THEN /\ pc' = "done"
              /\ UNCHANGED <<budget, calls, exc, all_res, page>>
         ELSE \E a \in Answers(200) :
                /\ Spend(a, 200)
                /\ calls' = Append(calls,
                       CallAt(ri, "issue_list_issues", "-", repos[ri], "-", page, a))
                /\ IF ~Ok(a)
                     THEN /\ Raise("ApiException", a)
                          /\ UNCHANGED <<all_res, page>>
                     ELSE LET fetched == Endpoint(IssueItems(repos[ri]))[page]
                          IN  IF fetched = <<>>
                                THEN /\ pc' = "close_edit"
                                     /\ UNCHANGED <<all_res, page, exc>>
                                ELSE /\ all_res' = append_items(all_res, fetched)
                                     /\ page' = page + 1
                                     /\ UNCHANGED <<pc, exc>>
    /\ UNCHANGED <<cacheVars, org, log, argVars, groupLocals, run, snap, syncLocals, si,
                   issueVars, pages, mode, kwargs>>

\* lines 384-388: the next collected issue, edited to closed unless it is
\* closed; after the last one, the next repo.
CloseIssue ==
    /\ pc = "close_edit"
    /\ IF all_res = <<>>
         THEN /\ ri' = ri + 1
              /\ page' = 1
              /\ pc' = "close_fetch"
              /\ UNCHANGED <<remoteVars, calls, exc, all_res>>
         ELSE LET issue == Head(all_res)
              IN  /\ UNCHANGED <<ri, page>>
                  /\ IF needs_closing(issue)
                       THEN \E a \in Answers(201) :
                              /\ Spend(a, 201)
                              /\ calls' = Append(calls,
                                     CallAt(ri, "issue_edit_issue", "-", repos[ri], "-",
                                            issue.number, a))
                              /\ IF Ok(a)
                                   THEN /\ org' = [org EXCEPT
                                             !.closed[repos[ri]] = @ \cup {issue.number}]
                                        /\ all_res' = Tail(all_res)
                                        /\ UNCHANGED <<pc, exc>>
                                   ELSE /\ Raise("ApiException", a)
                                        /\ UNCHANGED <<org, all_res>>
                       ELSE /\ all_res' = Tail(all_res)
                            /\ UNCHANGED <<remoteVars, calls, pc, exc>>
    /\ UNCHANGED <<cacheVars, log, argVars, groupLocals, run, snap, syncLocals, si, issues,
                   history, commits, repo_arg, title, ret, res, pages, mode, kwargs>>

close_all_issues ==
    \/ CloseListRepos
    \/ CloseFetchIssues
    \/ CloseIssue

\* Organizations with any repos, whose issues are open or closed, on a
\* platform that lists the open issues or all of them.
CloseOrgs ==
    {[EmptyOrg EXCEPT !.repos = R, !.closed = c, !.listed = l] :
        R \in SUBSET GroupNames,
        c \in [GroupNames -> SUBSET (1 .. MaxIssues)],
        l \in {"open", "all"}}

InitClose ==
    /\ org \in CloseOrgs
    /\ budget \in 0 .. MaxFaults
    /\ calls = <<>>
    /\ log = <<>>
    /\ pc = "close"
    /\ exc = [kind |-> "-", status |-> 0]
    /\ students = <<>>
    /\ groups = <<>>
    /\ team_name_convertor = Identity
    /\ repo_name_convertor = Identity
    /\ GroupLocalsInit
    /\ CacheVarsInit
    /\ SyncLocalsInit
    /\ issues \in [GroupNames -> StatusIssueLists]
    /\ \A n \in GroupNames :
           /\ org.closed[n] \subseteq DOMAIN issues[n]
           /\ n \notin org.repos => issues[n] = <<>>
    /\ history = [n \in GroupNames |-> 0]
    /\ commits = <<>>
    /\ repo_arg = "-"
    /\ title = "-"
    /\ ret = FALSE
    /\ res = <<>>
    /\ ri = 0
    /\ ListVarsInit
    /\ run = 1
    /\ snap = org

SpecClose == InitClose /\ [][close_all_issues]_vars

\* ------------------------------------------- operations one after another
\* The repo name convertor of each operation: by group name for the groups,
\* by student id for the personal repos.
LifecyclePersonal ==
    [i \in UserIds |-> IF i = 1 THEN "g1" ELSE IF i = 3 THEN "g12" ELSE None]
ConvertorOf(op) == IF op = "personal" THEN LifecyclePersonal ELSE Identity
Operations == {"start", "sync_team", "personal"}

\* The caller starts another provisioning operation on the same engine: new
\* locals, the same platform, and the caches of the instance kept.
StartOperation ==
    /\ pc \in {"done", "raised"}
    /\ run < MaxOps
    /\ run' = run + 1
    /\ \E op \in Operations :
         /\ pc' = op
         /\ repo_name_convertor' = ConvertorOf(op)
    /\ exc' = [kind |-> "-", status |-> 0]
    /\ teams' = <<>>
    /\ repos' = <<>>
    /\ repo_names' = <<>>
    /\ gi' = 0
    /\ team' = "-"
    /\ mi' = 0
    /\ student_count' = 0
    /\ username' = "-"
    /\ ti' = 1
    /\ team_id' = "-"
    /\ team_members' = <<>>
    /\ si' = 0
    /\ UNCHANGED <<cacheVars, remoteVars, calls, log, students, groups, team_name_convertor,
                   snap, team_names, team_id_cache, issueVars, listVars>>

LifecycleRosters ==
    {<<[name |-> "g1", memberships |-> <<3, 4>>]>>,
     <<[name |-> "g1", memberships |-> <<1>>], [name |-> "g12", memberships |-> <<>>]>>}
\* The organization is empty, or has team g1 and repo g1 with a member, a
\* collaborator and a rule that no roster names.
LifecycleOrgs ==
    {EmptyOrg,
     [EmptyOrg EXCEPT !.teams = {"g1"}, !.repos = {"g1"},
                      !.members["g1"] = {"carol"},
                      !.collaborators["g1"] = {"carol"},
                      !.protection["g1"] = {5}]}

InitLifecycle ==
    /\ org \in LifecycleOrgs
    /\ budget \in 0 .. MaxFaults
    /\ calls = <<>>
    /\ log = <<>>
    /\ pc \in Operations
    /\ exc = [kind |-> "-", status |-> 0]
    /\ students = GroupStudents
    /\ groups \in LifecycleRosters
    /\ team_name_convertor = Identity
    /\ repo_name_convertor = ConvertorOf(pc)
    /\ GroupLocalsInit
    /\ CacheVarsInit
    /\ team_names \in {<<"g1">>, <<"g12", "g1">>}
    /\ ti = 1
    /\ team_id = "-"
    /\ team_id_cache = <<>>
    /\ team_members = <<>>
    /\ si = 0
    /\ IssueVarsInit
    /\ ListVarsInit
    /\ run = 1
    /\ snap = org

Provisioning ==
    \/ create_teams_and_repos_by_canvas_groups
    \/ add_canvas_students_to_teams
    \/ create_personal_repos_for_canvas_students
    \/ StartOperation

SpecLifecycle == InitLifecycle /\ [][Provisioning]_vars

\* ------------------------------------------ _get_username_by_canvas_student
\* line 79: @lru_cache() keeps the 128 most recently used results.
maxsize == 128

\* functools.lru_cache on a miss with the cache full: the least recently used
\* entry makes room.
evicted(cache) == IF Len(cache) >= maxsize THEN Tail(cache) ELSE cache

CacheKeys == {username_cache[k].key : k \in DOMAIN username_cache}
\* The students a call may be for: the first one, the one without an
\* integration_id, and the next student not resolved before.
Unresolvable == {i \in DOMAIN students : students[i].integration_id = None}
Fresh == {i \in DOMAIN students : i \notin resolved /\ i \notin Unresolvable}
CallStudents == {1} \cup Unresolvable \cup (IF Fresh = {} THEN {} ELSE {Min(Fresh)})

\* lines 79-83: one call of the cached resolver.  A hit answers from the cache
\* and makes the entry the most recent; a miss runs the body, and caches the
\* result unless the body raises.
ResolveUsername ==
    /\ pc = "resolve"
    /\ \E i \in CallStudents :
         IF i \in CacheKeys
           THEN LET k == CHOOSE j \in DOMAIN username_cache : username_cache[j].key = i
                    entry == username_cache[k]
                IN  /\ username_cache' =
                          Append(SubSeq(username_cache, 1, k - 1)
                                     \o SubSeq(username_cache, k + 1, Len(username_cache)),
                                 entry)
                    /\ last_call' = [student |-> i, known |-> i \in resolved,
                                     hit |-> TRUE, result |-> <<entry.value>>]
                    /\ UNCHANGED resolved
           ELSE LET name == get_username_by_canvas_student(students[i])
                IN  /\ last_call' = [student |-> i, known |-> i \in resolved,
                                     hit |-> FALSE, result |-> name]
                    /\ IF name = <<>>
                         THEN UNCHANGED <<username_cache, resolved>>
                         ELSE /\ username_cache' =
                                    Append(evicted(username_cache),
                                           [key |-> i, value |-> name[1]])
                              /\ resolved' = resolved \cup {i}
    /\ UNCHANGED <<remoteVars, calls, log, pc, exc, argVars, groupLocals, run, snap,
                   syncLocals, si, issueVars, listVars>>

\* A roster of MaxRoster students, the second without an integration_id.
CacheRoster ==
    [i \in 1 .. MaxRoster |-> Student(i, IF i = 2 THEN None ELSE ToString(i))]

InitCache ==
    /\ org = EmptyOrg
    /\ budget = 0
    /\ calls = <<>>
    /\ log = <<>>
    /\ pc = "resolve"
    /\ exc = [kind |-> "-", status |-> 0]
    /\ students = CacheRoster
    /\ groups = <<>>
    /\ team_name_convertor = Identity
    /\ repo_name_convertor = Identity
    /\ GroupLocalsInit
    /\ CacheVarsInit
    /\ SyncLocalsInit
    /\ IssueVarsInit
    /\ ListVarsInit
    /\ run = 1
    /\ snap = org

SpecCache == InitCache /\ [][ResolveUsername]_vars

\* ------------------------------------------------------------------ claims
CallsOf(api) == {k \in DOMAIN calls : calls[k].api = api}
Ended == pc \in {"done", "raised"}
OptedOut(k) ==
    \/ team_name_convertor[groups[k].name] = None
    \/ repo_name_convertor[groups[k].name] = None

\* No call was answered with an error, but for the 404 that answers the delete
\* of a rule that does not exist.
NoRemoteFailure ==
    \A k \in DOMAIN calls :
        \/ Ok(calls[k].status)
        \/ calls[k].api = "repo_delete_branch_protection" /\ calls[k].status = 404

FirstRunClean ==
    \A k \in DOMAIN calls :
        \/ calls[k].run = 2
        \/ Ok(calls[k].status)
        \/ calls[k].api = "repo_delete_branch_protection" /\ calls[k].status = 404

\* C1: a second run of create_teams_and_repos_by_canvas_groups on the same
\* students, groups and convertors, after a first run that met no remote
\* failure, meets no remote failure either, ends with the organization exactly
\* as the first run left it (teams, repos, team members, team repos,
\* collaborators, rule on master), and issues no create call for a team or a
\* repo, so that no name comes to exist twice.
C1_Idempotent ==
    (run = 2 /\ Ended /\ FirstRunClean) =>
        /\ NoRemoteFailure
        /\ org = snap
        /\ \A k \in CallsOf("org_create_team") \cup CallsOf("create_org_repo") :
               calls[k].run = 1
        /\ \A j, k \in CallsOf("org_create_team") :
               calls[j].team = calls[k].team => j = k
        /\ \A j, k \in CallsOf("create_org_repo") :
               calls[j].repo = calls[k].repo => j = k

C1_Witness ==
    /\ run = 2
    /\ pc = "done"
    /\ NoRemoteFailure
    /\ Len(groups) = 2
    /\ \E k \in CallsOf("org_create_team") : calls[k].run = 1
    /\ \E k \in CallsOf("create_org_repo") : calls[k].run = 1
    /\ \E k \in CallsOf("org_add_team_member") : calls[k].run = 2
    /\ \E k \in CallsOf("repo_create_branch_protection") :
           calls[k].run = 2 /\ calls[k].n = 1

\* C2: every branch-protection rule the operation creates for a group asks for
\* max(number of memberships of the group - 1, 0) approvals: 0 for a group of
\* 0 or 1 memberships, never a negative number.
C2_RequiredApprovals ==
    \A k \in CallsOf("repo_create_branch_protection") :
        LET n == Len(groups[calls[k].gi].memberships)
        IN  /\ calls[k].n = (IF n - 1 > 0 THEN n - 1 ELSE 0)
            /\ calls[k].n >= 0
            /\ n <= 1 => calls[k].n = 0

C2_Witness ==
    /\ pc = "done"
    /\ \E j, k \in CallsOf("repo_create_branch_protection") :
           /\ Len(groups[calls[j].gi].memberships) = 0
           /\ Ok(calls[j].status)
           /\ Len(groups[calls[k].gi].memberships) = 2
           /\ \E m \in 1 .. 2 : groups[calls[k].gi].memberships[m] = 3
           /\ Ok(calls[k].status)

\* The scenario's group and what the run did for it.
Resolvable == {students[i].integration_id : i \in DOMAIN students} \ {None}
ScenarioOutcome(approvals) ==
    /\ {calls[k].user : k \in CallsOf("org_add_team_member")} = Resolvable
    /\ Cardinality(CallsOf("org_add_team_member")) = 4
    /\ {calls[k].user : k \in CallsOf("repo_add_collaborator")} = Resolvable
    /\ Cardinality(CallsOf("repo_add_collaborator")) = 4
    /\ org.members[groups[1].name] \ {"bob"} = Resolvable \ {"bob"}
    /\ org.collaborators[groups[1].name] = Resolvable
    /\ Cardinality({k \in DOMAIN log : log[k].level = "warning"}) = 1
    /\ Cardinality(CallsOf("repo_create_branch_protection")) = 1
    /\ \A k \in CallsOf("repo_create_branch_protection") : calls[k].n = approvals
    /\ org.protection[groups[1].name] = {approvals}

\* C3 as stated: the group of 4 resolvable members and 1 unresolvable member
\* gets the 4 as team members and collaborators, 1 warning, and a rule that
\* asks for 3 approvals.
C3_AsStated == pc = "done" => ScenarioOutcome(3)

\* C3 amended: the same, with a rule that asks for 4 approvals: the count is
\* of the group's 5 memberships, the unresolvable one included.
C3_Scenario == pc = "done" => ScenarioOutcome(4)

C3_Witness ==
    /\ pc = "done"
    /\ Cardinality(Resolvable) = 4
    /\ Len(groups[1].memberships) = 5
    /\ students[3].integration_id = None
    /\ Cardinality(CallsOf("org_create_team")) = 1

\* C10: a failure that concerns one group does not keep the later groups of
\* the roster from being processed: when the operation has ended, every group
\* after the failed one that is not opted out has had its jobs done.
C10_FailureIsolation ==
    (pc = "raised" /\ gi >= 1) =>
        \A k \in (gi + 1) .. Len(groups) :
            ~OptedOut(k) => \E r \in DOMAIN log : log[r].what = "jobs done" /\ log[r].gi = k

\* The concatenation of the pages 1 .. k the method answers.
RECURSIVE PagesUpTo(_)
PagesUpTo(k) == IF k = 0 THEN <<>> ELSE PagesUpTo(k - 1) \o MethodAnswer(k)

\* C8: list_all requests page 1 first and then each next page index, always
\* with the same arguments, and requests nothing after an empty page (or an
\* error); when it returns, after the request of the first empty page k, its
\* result is the items of the pages 1 .. k-1 in order, none dropped,
\* duplicated or moved.
C8_OrderedConcatenation ==
    /\ \A i \in DOMAIN calls :
           /\ calls[i].api = "method"
           /\ calls[i].n = i
           /\ calls[i].repo = kwargs
           /\ i < Len(calls) => Ok(calls[i].status) /\ MethodAnswer(i) # <<>>
    /\ pc = "done" =>
           LET k == Len(calls)
           IN  /\ k >= 1
               /\ MethodAnswer(k) = <<>>
               /\ \A i \in 1 .. k - 1 : MethodAnswer(i) # <<>>
               /\ all_res = PagesUpTo(k - 1)

C8_Witness ==
    /\ pc = "done"
    /\ Len(calls) = 3
    /\ Len(pages) = 3
    /\ pages[3] = <<>>
    /\ Len(all_res) = 4
    /\ all_res[1] # all_res[2]
    /\ all_res[3] = all_res[4]

\* ------------------------------------------- add_canvas_students_to_teams
RosterUsernames == {students[i].integration_id : i \in DOMAIN students} \ {None}
PassCalls(t, api) == {k \in CallsOf(api) : calls[k].gi = t}
Reports(t, u) ==
    {r \in DOMAIN log : /\ log[r].gi = t
                        /\ log[r].what = "not found in Canvas students"
                        /\ log[r].who = u}

\* C4: the sync only adds: it issues no call that removes, every user who was
\* a member of a synced team before the sync and is no roster student's
\* username is still a member after it, and is reported exactly once, in that
\* team's pass, as found in the team but not among the students, however
\* many members the team has.
C4_AdditiveOnly ==
    /\ \A k \in DOMAIN calls :
           calls[k].api \in {"team_search", "org_list_team_members", "org_add_team_member"}
    /\ pc = "done" =>
           \A t \in DOMAIN team_names :
               \A k \in PassCalls(t, "org_list_team_members") :
                   \A u \in snap.members[calls[k].team] \ RosterUsernames :
                       /\ u \in org.members[calls[k].team]
                       /\ Cardinality(Reports(t, u)) = 1

AllResolveDistinct ==
    /\ \A i \in DOMAIN students : students[i].integration_id # None
    /\ \A i, j \in DOMAIN students :
           students[i].integration_id = students[j].integration_id => i = j

\* The passes sync distinct teams, each without a member before the sync.
EmptyTeams ==
    \A t \in DOMAIN team_names :
        /\ \A k \in PassCalls(t, "org_list_team_members") :
               snap.members[calls[k].team] = {}
        /\ \A u \in DOMAIN team_names :
               (\E j \in PassCalls(t, "org_list_team_members"),
                   k \in PassCalls(u, "org_list_team_members") :
                      calls[j].team = calls[k].team) => t = u

\* C9: when the synced teams have no members before the sync, every roster
\* student resolves to a username of their own and the platform answers every
\* call normally, each team's pass issues exactly one add-member call per
\* roster student, for that student's username, logs one addition for each,
\* and reports no member as found in the team but not among the students.
C9_EmptyTeamSync ==
    (pc = "done" /\ NoRemoteFailure /\ AllResolveDistinct /\ EmptyTeams) =>
        \A t \in DOMAIN team_names :
            /\ Cardinality(PassCalls(t, "org_add_team_member")) = Len(students)
            /\ \A i \in DOMAIN students :
                   /\ Cardinality({k \in PassCalls(t, "org_add_team_member") :
                                      calls[k].user = students[i].integration_id}) = 1
                   /\ Cardinality({r \in DOMAIN log :
                                      /\ log[r].gi = t
                                      /\ log[r].what = "added to team"
                                      /\ log[r].level = "info"
                                      /\ log[r].who = students[i].integration_id}) = 1
            /\ Cardinality({r \in DOMAIN log : log[r].gi = t /\ log[r].what = "added to team"})
                   = Len(students)
            /\ \A u \in Usernames : Reports(t, u) = {}
            /\ \A k \in PassCalls(t, "org_list_team_members") :
                   org.members[calls[k].team] = RosterUsernames

C9_Witness ==
    /\ pc = "done"
    /\ NoRemoteFailure
    /\ AllResolveDistinct
    /\ EmptyTeams
    /\ Len(students) = 2
    /\ Len(team_names) = 2
    /\ Cardinality(CallsOf("org_add_team_member")) = 4

\* ----------------------------- create_personal_repos_for_canvas_students
\* The turn of student i is over.
TurnOver(i) == pc = "done" \/ si > i \/ (pc = "personal" /\ si = i)

\* C5: when the create-repo call for a student answers 409, the operation
\* logs 'already exists' at warning level, raises nothing, still issues the
\* add-collaborator call for that student on that repo, and goes on with the
\* next student.
C5_ConflictTolerated ==
    \A k \in CallsOf("create_org_repo") :
        calls[k].status = 409 =>
            /\ \E r \in DOMAIN log : /\ log[r].gi = calls[k].gi
                                     /\ log[r].level = "warning"
                                     /\ log[r].what = "already exists"
                                     /\ log[r].who = calls[k].repo
            /\ pc # "raised"
            /\ TurnOver(calls[k].gi) =>
                   \E j \in CallsOf("repo_add_collaborator") :
                       /\ j = k + 1
                       /\ calls[j].gi = calls[k].gi
                       /\ calls[j].repo = calls[k].repo

\* ------------------------------------------------ check_exist_issue_by_title
\* C6: check_exist_issue_by_title(repo, title) returns true if and only if
\* some issue of the repository, on whichever page of the issue listing, has
\* exactly the given title, case included; otherwise it returns false.
C6_ExistsIffOnAnyPage ==
    (pc = "done") =>
        (ret <=> \E i \in DOMAIN issues[repo_arg] : issues[repo_arg][i] = title)

\* The only issue with the title is beyond the first page, and an issue with
\* the title in another case is on the first page.
C6_Witness ==
    /\ pc = "done"
    /\ ret
    /\ Len(issues[repo_arg]) > PageSize
    /\ \A i \in 1 .. PageSize : issues[repo_arg][i] # title
    /\ \E i \in 1 .. PageSize : Fold[issues[repo_arg][i]] = Fold[title]

\* ------------------------------------------------------------ get_repos_status
\* C7: when the commit listing of a repo answers 409, get_repos_status does
\* not raise: it records 0 commits for the repo, still lists the repo's issues
\* and records their count, and goes on to the remaining repos; any other
\* error status of the commit listing is raised to the caller.
C7_EmptyRepository ==
    \A k \in CallsOf("repo_get_all_commits") :
        /\ calls[k].status = 409 =>
               /\ ~(pc = "raised" /\ k = Len(calls))
               /\ IF k = Len(calls)
                    THEN pc = "status_issues" /\ commits = <<>>
                    ELSE /\ calls[k + 1].api = "issue_list_issues"
                         /\ calls[k + 1].repo = calls[k].repo
                         /\ Ok(calls[k + 1].status) =>
                                /\ calls[k].repo \in DOMAIN res
                                /\ res[calls[k].repo] = <<0, calls[k + 1].n>>
                                /\ \/ pc = "done" /\ calls[k].gi <= Len(repos)
                                   \/ pc # "done" /\ ri > calls[k].gi
               /\ pc = "done" => DOMAIN res = Range(repos)
        /\ (~Ok(calls[k].status) /\ calls[k].status # 409) =>
               /\ k = Len(calls)
               /\ pc = "raised"
               /\ exc = [kind |-> "ApiException", status |-> calls[k].status]

\* The first of two repos has no commits and some issues; both are recorded.
C7_Witness ==
    /\ pc = "done"
    /\ Len(repos) = 2
    /\ \E k \in CallsOf("repo_get_all_commits") :
           /\ calls[k].status = 409
           /\ calls[k].gi = 1
           /\ res[repos[1]][1] = 0
           /\ res[repos[1]][2] > 0
    /\ res[repos[2]][1] > 0

\* ---------------------------------------------------- the returned names
\* The provisioning of student i went through: the repo exists and nothing
\* was logged as an error in the student's turn.
Succeeded(i) ==
    /\ repo_name_convertor[students[i].id] # None
    /\ repo_name_convertor[students[i].id] \in org.repos
    /\ ~\E r \in DOMAIN log : log[r].gi = i /\ log[r].level = "error"

\* C11: the list create_personal_repos_for_canvas_students returns is exactly
\* the repo names of the students that were processed successfully, in roster
\* order: a name is returned only for a student whose repo exists and whose
\* provisioning did not fail.
C11_ReturnedNames ==
    pc = "done" =>
        LET done == SelectSeq([i \in DOMAIN students |-> i], Succeeded)
        IN  repo_names = [j \in DOMAIN done |-> repo_name_convertor[students[done[j]].id]]

\* ------------------------------------------------------- branch protection
\* C12: in group provisioning the delete of the rule on master comes right
\* before the create; a 404 answer to the delete counts as success; any other
\* failure of the delete and any failure of the create, whatever its status,
\* leaves the operation as an exception; so a group whose jobs are logged as
\* done has the new rule on its repo.
C12_ProtectionReplaced ==
    /\ \A k \in CallsOf("repo_create_branch_protection") :
           /\ k > 1
           /\ calls[k - 1].api = "repo_delete_branch_protection"
           /\ calls[k - 1].repo = calls[k].repo
           /\ calls[k - 1].gi = calls[k].gi
           /\ Ok(calls[k - 1].status) \/ calls[k - 1].status = 404
           /\ ~Ok(calls[k].status) => (k = Len(calls) /\ pc = "raised")
    /\ \A k \in CallsOf("repo_delete_branch_protection") :
           (~Ok(calls[k].status) /\ calls[k].status # 404) =>
               (k = Len(calls) /\ pc = "raised")
    /\ (pc = "group" /\ log # <<>> /\ log[Len(log)].what = "jobs done") =>
           /\ calls[Len(calls)].api = "repo_create_branch_protection"
           /\ org.protection[log[Len(log)].who] = {calls[Len(calls)].n}

\* ------------------------------------------------------ _get_team_id_by_name
\* C13: _get_team_id_by_name(name) returns the id of the team whose name is
\* exactly the requested name, and raises when the organization has no team
\* of exactly that name, whatever other teams match the search.
C13_ExactName ==
    /\ \A name \in DOMAIN team_id_cache : team_id_cache[name] = name
    /\ \A k \in CallsOf("team_search") :
           (Ok(calls[k].status) /\ calls[k].team \notin org.teams) =>
               /\ k = Len(calls)
               /\ pc = "raised"
               /\ exc.kind = "Exception"

\* -------------------------------------------------------------- lifecycle
\* Nothing of the organization's teams, repos, members and collaborators is
\* taken away by the step, and a call the step issues is not a delete other
\* than the branch-protection delete.
Grows ==
    /\ org.teams \subseteq org'.teams
    /\ org.repos \subseteq org'.repos
    /\ \A n \in GroupNames :
           /\ org.members[n] \subseteq org'.members[n]
           /\ org.collaborators[n] \subseteq org'.collaborators[n]
           /\ org.teamRepos[n] \subseteq org'.teamRepos[n]
    /\ Len(calls') > Len(calls) =>
           calls'[Len(calls')].api \in
               {"org_list_teams", "org_list_repos", "org_create_team", "create_org_repo",
                "org_add_team_repository", "org_add_team_member", "repo_add_collaborator",
                "repo_delete_branch_protection", "repo_create_branch_protection",
                "team_search", "org_list_team_members"}

\* C14: over any sequence of the three provisioning operations the teams,
\* the repos, each team's members and each repo's collaborators only grow,
\* and the only delete call issued is the branch-protection delete.
C14_AdditiveLifecycle == [][Grows]_vars

\* A second operation has added to a team and a repo that had a member and a
\* collaborator before, after a rule was deleted.
C14_Witness ==
    /\ run = 2
    /\ pc = "done"
    /\ {"carol"} \subseteq org.members["g1"]
    /\ org.members["g1"] # snap.members["g1"]
    /\ {"carol"} \subseteq org.collaborators["g1"]
    /\ org.collaborators["g1"] # snap.collaborators["g1"]
    /\ \E k \in CallsOf("repo_delete_branch_protection") : Ok(calls[k].status)
    /\ \E k \in CallsOf("org_add_team_member") : calls[k].run = 2

\* ------------------------------------------ _get_username_by_canvas_student
\* C15: a student the resolver has resolved once is answered from the cache,
\* with the same username and without the body running again, however many
\* other students were resolved in between; a student without integration_id
\* is never cached and fails at every call.
C15_ResolvedOnce ==
    last_call # NoCall =>
        /\ last_call.known =>
               /\ last_call.hit
               /\ last_call.result = <<students[last_call.student].integration_id>>
        /\ last_call.student \in Unresolvable =>
               /\ ~last_call.hit
               /\ last_call.result = <<>>
        /\ CacheKeys \cap Unresolvable = {}

\* ------------------------------------------- per-student failure isolation
StudentOutcomes == {"added to team", "already in team", "ApiException", "id not found"}
\* What pass t logged for the students, one record per student handled.
StudentRecords(t) ==
    SelectSeq(log, LAMBDA r : r.gi = t /\ r.what \in StudentOutcomes)
\* The loop over the students is over for pass t.
PassOver(t) == pc = "done" \/ ti > t \/ (ti = t /\ pc = "sync_report")

\* C16: in add_canvas_students_to_teams a student that does not resolve, or
\* whose add-member call fails, is logged as an error and stops nothing: no
\* add-member call is issued for an unresolved student, every student of the
\* roster is handled in every pass, and every team is handled.
C16_StudentIsolation ==
    /\ pc = "raised" => calls[Len(calls)].api # "org_add_team_member"
    /\ \A k \in CallsOf("org_add_team_member") :
           /\ students[calls[k].n].integration_id # None
           /\ calls[k].user = students[calls[k].n].integration_id
    /\ \A t \in DOMAIN team_names :
           PassOver(t) =>
               LET recs == StudentRecords(t)
               IN  /\ Len(recs) = Len(students)
                   /\ \A j \in DOMAIN students :
                          LET adds == {k \in PassCalls(t, "org_add_team_member") :
                                          calls[k].n = j}
                          IN  IF students[j].integration_id = None
                                THEN /\ recs[j].what = "id not found"
                                     /\ recs[j].level = "error"
                                     /\ adds = {}
                                ELSE /\ recs[j].who = students[j].integration_id
                                     /\ recs[j].what # "id not found"
                                     /\ recs[j].what = "ApiException" <=>
                                            \E k \in adds : ~Ok(calls[k].status)
                                     /\ recs[j].what = "ApiException" =>
                                            recs[j].level = "error"
                                     /\ recs[j].what = "added to team" <=>
                                            \E k \in adds : Ok(calls[k].status)
    /\ pc = "done" =>
           \A t \in DOMAIN team_names :
               \E k \in PassCalls(t, "org_list_team_members") : Ok(calls[k].status)

\* The first team's pass met a student that does not resolve and then a
\* failed add-member call; the second team's pass added that student.
C16_Witness ==
    /\ pc = "done"
    /\ Len(team_names) = 2
    /\ Len(students) = 2
    /\ students[1].integration_id = None
    /\ \E k \in PassCalls(1, "org_add_team_member") : calls[k].n = 2 /\ ~Ok(calls[k].status)
    /\ \E k \in PassCalls(2, "org_add_team_member") : calls[k].n = 2 /\ Ok(calls[k].status)

\* ------------------------------------------------------------ close_all_issues
Edits(repo, i) ==
    {k \in CallsOf("issue_edit_issue") : calls[k].repo = repo /\ calls[k].n = i}

C18_ConflictIsNoOp ==
    \A k \in CallsOf("create_org_repo") :
        calls[k].status = 409 =>
            /\ ~(pc = "raised" /\ k = Len(calls))
            /\ k = Len(calls) => pc = "link"
            /\ k < Len(calls) => /\ calls[k + 1].api = "org_add_team_repository"
                                 /\ calls[k + 1].repo = calls[k].repo

\* ------------------------------------------------------------ name uniqueness
\* C19: within one call of create_teams_and_repos_by_canvas_groups at most one
\* create-team call is issued per team name and at most one create-repo call
\* per repo name, and a create call is issued only for a name that no team
\* (resp. repo) has at that moment: none that the organization had before,
\* and none that an earlier call of the run created.
C19_NamesCreatedOnce ==
    /\ \A k \in CallsOf("org_create_team") :
           /\ calls[k].team \notin snap.teams
           /\ \A j \in CallsOf("org_create_team") :
                  calls[j].team = calls[k].team => j = k
    /\ \A k \in CallsOf("create_org_repo") :
           /\ calls[k].repo \notin snap.repos
           /\ \A j \in CallsOf("create_org_repo") :
                  calls[j].repo = calls[k].repo => j = k

\* ------------------------------------------------------ add iff not a member
\* The step handles a roster student whose identity resolves.
HandlesResolved ==
    /\ pc = "sync_student"
    /\ si <= Len(students)
    /\ students[si].integration_id # None

AddsIffNotMember ==
    HandlesResolved =>
        LET name == students[si].integration_id
        IN  IF name \in org.members[team_id]
              THEN /\ calls' = calls
                   /\ log' = Append(log, LogAt(ti, "warning", "already in team", name))
              ELSE /\ Len(calls') = Len(calls) + 1
                   /\ calls'[Len(calls')].api = "org_add_team_member"
                   /\ calls'[Len(calls')].user = name
                   /\ calls'[Len(calls')].team = team_id

\* C20: in add_canvas_students_to_teams, for a roster student whose identity
\* resolves, an add-member call is issued if and only if the username is not
\* a member of the team at that point; a username that is a member, on
\* whichever page of the member listing and however often the student occurs
\* in the roster, causes no call and is logged as already in the team.
C20_AddIffNotMember == [][AddsIffNotMember]_vars

\* A team search that resolved no team id: an error answer, or no team found.
Unresolved(c) ==
    /\ c.api = "team_search"
    /\ \/ ~Ok(c.status)
       \/ team_search(c.team) = {<<>>}
MemberCalls == CallsOf("org_list_team_members") \cup CallsOf("org_add_team_member")

\* C21: in add_canvas_students_to_teams over team names t1..tn, when the team
\* id of tk cannot be resolved the exception leaves the call at tk: the failed
\* search is the last remote call, no member call is issued for tk or a later
\* team, and every member added to t1..t(k-1) is still a member of its team.
C21_SetupAborts ==
    \A i \in DOMAIN calls :
        Unresolved(calls[i]) =>
            /\ pc = "raised"
            /\ i = Len(calls)
            /\ \A k \in MemberCalls : calls[k].gi < calls[i].gi
            /\ \A k \in CallsOf("org_add_team_member") :
                   Ok(calls[k].status) => calls[k].user \in org.members[calls[k].team]
C21_Witness ==
    /\ pc = "raised"
    /\ ti = 2
    /\ Unresolved(calls[Len(calls)])
    /\ \E k \in PassCalls(1, "org_add_team_member") : Ok(calls[k].status)

\* The create attempt of student i left the repo in place: created, or
\* answered as a conflict on a repo the organization has.
RepoInPlace(i) ==
    /\ repo_name_convertor[students[i].id] # None
    /\ repo_name_convertor[students[i].id] \in org.repos
    /\ \E k \in CallsOf("create_org_repo") :
           /\ calls[k].gi = i
           /\ (Ok(calls[k].status) \/ calls[k].status = 409)
IsCollaborator(i) ==
    /\ students[i].integration_id # None
    /\ students[i].integration_id \in
           org.collaborators[repo_name_convertor[students[i].id]]

\* C22: when create_personal_repos_for_canvas_students returns, every student
\* that is not opted out and whose repo exists after the create attempt
\* (created, or already there per a 409) is a collaborator of that repo, a
\* student whose identity does not resolve included.
C22_CollaboratorOfOwnRepo ==
    pc = "done" => \A i \in DOMAIN students : RepoInPlace(i) => IsCollaborator(i)

\* ------------------------------------------------------ list_all terminates
\* The index of the first empty page of the endpoint, if it has one.
FirstEmptyPages ==
    {k \in 1 .. MaxFetch : /\ MethodAnswer(k) = <<>>
                           /\ \A j \in 1 .. k - 1 : MethodAnswer(j) # <<>>}
ListAllSafe ==
    /\ pc = "done" => FirstEmptyPages = {Len(calls)}
    /\ FirstEmptyPages = {} => pc # "done"
    /\ \A i \in DOMAIN calls :
           ~Ok(calls[i].status) => i = Len(calls) /\ pc = "raised"
    /\ pc = "raised" => Len(calls) >= 1 /\ ~Ok(calls[Len(calls)].status)

\* C23: list_all returns if and only if the endpoint returns an empty page:
\* with page k the first empty page it returns after exactly k requests;
\* against an endpoint with no empty page it never returns; a request that
\* fails is the last request, and the call ends with the exception and no
\* result.
C23_TerminatesIffEmptyPage ==
    /\ []ListAllSafe
    /\ (FirstEmptyPages # {}) ~> (pc = "done" \/ pc = "raised")
C23_Witness ==
    /\ pc = "list_all_loop"
    /\ mode = "ignores page"
    /\ FirstEmptyPages = {}
    /\ Len(calls) = MaxFetch
    /\ page = MaxFetch + 1

\* ------------------------------------------------------- get_repos_status
\* C24: when get_repos_status returns, its result has exactly one entry per
\* repository of the organization, and the entry of a repository is the pair
\* (number of all its commits, number of all its issues in any state),
\* counted over every page of the commit and issue listings.
C24_TotalCounts ==
    pc = "done" =>
        /\ DOMAIN res = org.repos
        /\ \A n \in org.repos : res[n] = <<history[n], Len(issues[n])>>
====
